---------------------------- MODULE Spec2Model ----------------------------
(***************************************************************************)
(* Model of mpileup_coverage.py: a batch pipeline that reads a sambamba    *)
(* BED file, filters an mpileup file by the bases of the BED regions,      *)
(* flags every region that is not completely covered at the required       *)
(* depth and writes a report.                                              *)
(*                                                                         *)
(* Text is modelled as sequences of one-character strings, a line as the   *)
(* sequence of its tab-separated fields.  int() and str() are modelled by  *)
(* what they do (ParseInt, Str), so that "01" and "1" are different texts  *)
(* of the same number.                                                     *)
(***************************************************************************)
EXTENDS Integers, Sequences, FiniteSets, TLC

(***************************************************************************)
(* Bounds of the model.                                                    *)
(***************************************************************************)
MaxPos == 2
MaxDepth == 1
MaxBedLines == 2
MaxPileLines == 2

(***************************************************************************)
(* Text helpers.                                                           *)
(***************************************************************************)
Digits == <<"0", "1", "2", "3", "4", "5", "6", "7", "8", "9">>

DigitChars == {Digits[i] : i \in 1..10}

DigitVal(c) == (CHOOSE i \in 1..10 : Digits[i] = c) - 1

RECURSIVE DigitsValue(_)
DigitsValue(s) ==
    IF s = <<>> THEN 0
    ELSE 10 * DigitsValue(SubSeq(s, 1, Len(s) - 1)) + DigitVal(s[Len(s)])

AllDigits(s) == Len(s) > 0 /\ \A i \in 1..Len(s) : s[i] \in DigitChars

\* int(text): an optional sign followed by one or more decimal digits
\* (leading zeros allowed); anything else raises ValueError (ok = FALSE).
ParseInt(s) ==
    IF Len(s) > 0 /\ s[1] \in {"-", "+"}
    THEN IF AllDigits(Tail(s))
         THEN [ok |-> TRUE,
               val |-> IF s[1] = "-" THEN 0 - DigitsValue(Tail(s))
                       ELSE DigitsValue(Tail(s))]
         ELSE [ok |-> FALSE, val |-> 0]
    ELSE IF AllDigits(s)
         THEN [ok |-> TRUE, val |-> DigitsValue(s)]
         ELSE [ok |-> FALSE, val |-> 0]

\* str(n) of an integer: the canonical decimal text.
RECURSIVE Str(_)
Str(n) ==
    IF n < 0 THEN <<"-">> \o Str(0 - n)
    ELSE IF n < 10 THEN <<Digits[n + 1]>>
    ELSE Str(n \div 10) \o <<Digits[(n % 10) + 1]>>

\* range(a, b) of Python, as the sequence it iterates.
Range(a, b) == [i \in 1..(IF b > a THEN b - a ELSE 0) |-> a + i - 1]

SeqToSet(s) == {s[i] : i \in 1..Len(s)}


(***************************************************************************)
(* Input files.  A line is the sequence of its tab-separated fields, as    *)
(* line.split("\t") returns them; the last field carries the newline.      *)
(***************************************************************************)
\* The combined genomic coordinate of column 4, e.g. a:0-2.
CoordKey(chr, start, stop) == chr \o <<":">> \o Str(start) \o <<"-">> \o Str(stop)

BedLine(chr, start, stop, key) ==
    <<chr, start, stop, key, <<".">>, <<".">>, <<"D">>, <<"g", "\n">>>>

\* The two keys region_coverage adds to region_dict for the counts.
LowCountKey == <<"low_coverage_count">>

OkCountKey == <<"ok_coverage_count">>

Intervals == {se \in (0..MaxPos) \X (0..MaxPos) : se[1] < se[2]}

\* Every interval on chromosome a, one region on chromosome b.
WellFormedBedLines ==
    {BedLine(<<"a">>, Str(se[1]), Str(se[2]), CoordKey(<<"a">>, se[1], se[2])) :
        se \in Intervals}
    \cup {BedLine(<<"b">>, Str(0), Str(MaxPos), CoordKey(<<"b">>, 0, MaxPos))}

\* A line whose column 4 is one of the reserved names, a line of 7 fields
\* and a line whose start is not a number.
OddBedLines ==
    { BedLine(<<"a">>, Str(0), Str(MaxPos), OkCountKey),
      <<(<<"a">>), Str(0), Str(1), CoordKey(<<"a">>, 0, 1), <<".">>, <<"D">>, <<"g", "\n">>>>,
      BedLine(<<"a">>, <<"x">>, Str(1), CoordKey(<<"a">>, 0, 1)) }

BedLines == WellFormedBedLines \cup OddBedLines

PileLine(chr, pos, depth) == <<chr, pos, <<"A">>, depth, <<".">>, <<"I", "\n">>>>

\* The depths of the lines: the largest cutoff and the depth just below it.
Depths == {MaxDepth - 1, MaxDepth}

\* Every position on chromosome a at both depths, one line on chromosome b.
WellFormedPileLines ==
    {PileLine(<<"a">>, Str(p), Str(d)) : p \in 1..MaxPos, d \in Depths}
    \cup {PileLine(<<"b">>, Str(1), Str(MaxDepth))}

\* A position written with a leading zero, a position and a depth that are
\* not numbers, and a line of 5 fields.
OddPileLines ==
    { PileLine(<<"a">>, <<"0", "1">>, Str(MaxDepth)),
      PileLine(<<"a">>, <<"x">>, Str(MaxDepth)),
      PileLine(<<"a">>, Str(1), <<"x">>),
      <<(<<"a">>), Str(1), <<"A">>, Str(MaxDepth), <<".">>>> }

PileLines == WellFormedPileLines \cup OddPileLines

\* The cutoffs 0 and MaxDepth, and a text that is not a number.
CoverageArgs == {Str(0), Str(MaxDepth), <<"x">>}

(***************************************************************************)
(* State.                                                                  *)
(***************************************************************************)
VARIABLES
    coverage,           \* args.coverage, the text given on the command line
    pc,                 \* the stage main() is in, "done" or "error"
    line,               \* the line the running loop has just read
    nread,              \* number of lines read from the file being read
    region_dict,        \* key -> region entry (later also the two counts)
    region_order,       \* the keys of region_dict in insertion order
    position_list,      \* texts chr:pos of the bases of the BED regions
    mpileup_list,       \* retained records <<chr, pos, depth>>
    depth_file_bases,   \* <<chr, pos>> of the mpileup lines read at a base of some region
    low_coverage_count,
    ok_coverage_count,
    evaluated,          \* number of regions the loop of region_coverage has done
    looked_up,          \* key -> bases the loop searched mpileup_list for
    output_exists,      \* args.output_file has been opened for writing
    output_file         \* lines written to args.output_file

vars == <<coverage, pc, line, nread, region_dict, region_order, position_list,
          mpileup_list, depth_file_bases, low_coverage_count, ok_coverage_count,
          evaluated, looked_up, output_exists, output_file>>

EmptyDict == [k \in {} |-> 0]

\* d[key] = value of a Python dict.
DictSet(d, key, value) ==
    [k \in DOMAIN d \cup {key} |-> IF k = key THEN value ELSE d[k]]

\* Insertion order of a dict after d[key] = value.
OrderSet(order, key) ==
    IF key \in SeqToSet(order) THEN order ELSE Append(order, key)

Init ==
    /\ coverage \in CoverageArgs
    /\ pc = "read_bedfile"
    /\ line = <<>>
    /\ nread = 0
    /\ region_dict = EmptyDict
    /\ region_order = <<>>
    /\ position_list = <<>>
    /\ mpileup_list = <<>>
    /\ depth_file_bases = {}
    /\ low_coverage_count = 0
    /\ ok_coverage_count = 0
    /\ evaluated = 0
    /\ looked_up = EmptyDict
    /\ output_exists = FALSE
    /\ output_file = <<>>

(***************************************************************************)
(* read_bedfile                                                            *)
(***************************************************************************)
\* Variant without the check of the field count.
BedLineParsesAnyCount(l) ==
    /\ ParseInt(l[2]).ok
    /\ ParseInt(l[3]).ok

\* The assert on the field count and the two int() calls of one line.
BedLineParses(l) ==
    /\ Len(l) = 8
    /\ ParseInt(l[2]).ok
    /\ ParseInt(l[3]).ok

\* chr+":"+str(base) for base in range(int(start), int(stop)).
BasePositions(chr, start, stop) ==
    [i \in 1..Len(Range(start, stop)) |-> chr \o <<":">> \o Str(Range(start, stop)[i])]

RegionEntry(l) ==
    [chr |-> l[1], start |-> ParseInt(l[2]).val,
     stop |-> ParseInt(l[3]).val, description |-> l[7]]

\* One iteration of the loop over the lines of the BED file.
read_bedfile_line ==
    /\ pc = "read_bedfile"
    /\ nread < MaxBedLines
    /\ \E l \in BedLines :
         /\ line' = l
         /\ nread' = nread + 1
         /\ IF ~BedLineParses(l)
            THEN /\ pc' = "error"
                 /\ UNCHANGED <<region_dict, region_order, position_list>>
            ELSE /\ pc' = pc
                 /\ region_dict' = DictSet(region_dict, l[4], RegionEntry(l))
                 /\ region_order' = OrderSet(region_order, l[4])
                 /\ position_list' = position_list \o
                      BasePositions(l[1], ParseInt(l[2]).val, ParseInt(l[3]).val)
    /\ UNCHANGED <<coverage, mpileup_list, depth_file_bases, low_coverage_count,
                   ok_coverage_count, evaluated, looked_up, output_exists, output_file>>

\* The BED file is exhausted: read_bedfile returns and main calls parse_mpileup.
read_bedfile_return ==
    /\ pc = "read_bedfile"
    /\ pc' = "parse_mpileup"
    /\ line' = <<>>
    /\ nread' = 0
    /\ UNCHANGED <<coverage, region_dict, region_order, position_list, mpileup_list,
                   depth_file_bases, low_coverage_count, ok_coverage_count,
                   evaluated, looked_up, output_exists, output_file>>

(***************************************************************************)
(* parse_mpileup                                                           *)
(***************************************************************************)
\* Variant without the filter: every line is taken.
InPositionListAlways(l, positions) == TRUE

\* str(chr)+":"+str(pos) in position_list
InPositionList(l, positions) ==
    (l[1] \o <<":">> \o l[2]) \in SeqToSet(positions)

\* What one line does: the unpacking of the 6 fields raises on any other
\* field count; int(pos) and int(depth) are reached only for a line of
\* position_list.
PileLineRaises(l, positions) ==
    \/ Len(l) # 6
    \/ /\ InPositionList(l, positions)
       /\ ~(ParseInt(l[2]).ok /\ ParseInt(l[4]).ok)

PileRecord(l) == <<l[1], ParseInt(l[2]).val, ParseInt(l[4]).val>>

\* The base lies on the chromosome and between start and stop (both
\* included) of some region of region_dict.
InSomeRegion(chr, pos) ==
    \E k \in DOMAIN region_dict :
        /\ region_dict[k].chr = chr
        /\ region_dict[k].start <= pos
        /\ pos <= region_dict[k].stop

\* One iteration of the loop over the lines of the mpileup file.
parse_mpileup_line ==
    /\ pc = "parse_mpileup"
    /\ nread < MaxPileLines
    /\ \E l \in PileLines :
         /\ line' = l
         /\ nread' = nread + 1
         /\ depth_file_bases' =
              IF ParseInt(l[2]).ok /\ InSomeRegion(l[1], ParseInt(l[2]).val)
              THEN depth_file_bases \cup {<<l[1], ParseInt(l[2]).val>>}
              ELSE depth_file_bases
         /\ IF PileLineRaises(l, position_list)
            THEN /\ pc' = "error"
                 /\ UNCHANGED mpileup_list
            ELSE /\ pc' = pc
                 /\ mpileup_list' =
                      IF InPositionList(l, position_list)
                      THEN Append(mpileup_list, PileRecord(l))
                      ELSE mpileup_list
    /\ UNCHANGED <<coverage, region_dict, region_order, position_list,
                   low_coverage_count, ok_coverage_count, evaluated, looked_up,
                   output_exists, output_file>>

\* The mpileup file is exhausted: parse_mpileup returns and main calls
\* region_coverage.
parse_mpileup_return ==
    /\ pc = "parse_mpileup"
    /\ pc' = "region_coverage"
    /\ line' = <<>>
    /\ nread' = 0
    /\ UNCHANGED <<coverage, region_dict, region_order, position_list, mpileup_list,
                   depth_file_bases, low_coverage_count, ok_coverage_count,
                   evaluated, looked_up, output_exists, output_file>>

(***************************************************************************)
(* region_coverage                                                         *)
(***************************************************************************)
\* The bases the loop of a region iterates: range(start+1, stop).
RegionBases(region) == SeqToSet(Range(region.start + 1, region.stop))

\* Indexes of the records of the list that the inner loop matches for a base.
Matches(list, region, base) ==
    {i \in 1..Len(list) : region.chr = list[i][1] /\ base = list[i][2]}

\* int(args.coverage) is evaluated for every matching record: it raises
\* when there is one and the text is not a number.
RegionRaises(list, region, cov) ==
    /\ ~ParseInt(cov).ok
    /\ \E base \in RegionBases(region) : Matches(list, region, base) # {}

\* Variant with an exclusive cutoff: depth <= int(args.coverage).
BelowCutoffOrEqual(depth, cov) == depth <= ParseInt(cov).val

\* mpileup_base[2] < int(args.coverage)
BelowCutoff(depth, cov) == depth < ParseInt(cov).val

\* The flag of a region after its two inner loops: some base has a matching
\* record below the cutoff, or some base has no matching record.
LowCoverage(list, region, cov) ==
    \E base \in RegionBases(region) :
        \/ \E i \in Matches(list, region, base) : BelowCutoff(list[i][3], cov)
        \/ Matches(list, region, base) = {}

\* The if/else that adds the region to one of the two counts.
LowCountAfter(count, low) == IF low THEN count + 1 ELSE count

\* Variant that counts every region as covered.
OkCountAfterAlways(count, low) == count + 1

OkCountAfter(count, low) == IF low THEN count ELSE count + 1

\* One iteration of "for region in region_dict".
region_coverage_region ==
    /\ pc = "region_coverage"
    /\ evaluated < Len(region_order)
    /\ LET key == region_order[evaluated + 1]
           region == region_dict[key]
       IN  IF RegionRaises(mpileup_list, region, coverage)
           THEN /\ pc' = "error"
                /\ UNCHANGED <<region_dict, low_coverage_count, ok_coverage_count,
                               evaluated, looked_up>>
           ELSE LET low == LowCoverage(mpileup_list, region, coverage) IN
                /\ pc' = pc
                /\ region_dict' =
                     [region_dict EXCEPT ![key] =
                        [chr |-> region.chr, start |-> region.start,
                         stop |-> region.stop, description |-> region.description,
                         low_coverage |-> low]]
                /\ low_coverage_count' = LowCountAfter(low_coverage_count, low)
                /\ ok_coverage_count' = OkCountAfter(ok_coverage_count, low)
                /\ evaluated' = evaluated + 1
                /\ looked_up' = DictSet(looked_up, key, RegionBases(region))
    /\ UNCHANGED <<coverage, line, nread, region_order, position_list, mpileup_list,
                   depth_file_bases, output_exists, output_file>>

\* After the loop: the assert on the two counts, then the counts are stored
\* in region_dict under the two reserved keys.
region_coverage_return ==
    /\ pc = "region_coverage"
    /\ evaluated = Len(region_order)
    /\ IF low_coverage_count + ok_coverage_count = Cardinality(DOMAIN region_dict)
       THEN /\ pc' = "report"
            /\ region_dict' =
                 DictSet(DictSet(region_dict, LowCountKey, [count |-> low_coverage_count]),
                         OkCountKey, [count |-> ok_coverage_count])
            /\ region_order' = OrderSet(OrderSet(region_order, LowCountKey), OkCountKey)
       ELSE /\ pc' = "error"
            /\ UNCHANGED <<region_dict, region_order>>
    /\ UNCHANGED <<coverage, line, nread, position_list, mpileup_list, depth_file_bases,
                   low_coverage_count, ok_coverage_count, evaluated, looked_up,
                   output_exists, output_file>>

(***************************************************************************)
(* report_low_covered_regions                                              *)
(***************************************************************************)
HeaderLine(cov) == <<"header", cov>>

RegionLine(region) ==
    <<region.chr, Str(region.start), Str(region.stop), region.description \o <<"\n">>>>

SummaryLine(dict, cov) == <<"summary", Str(dict[OkCountKey].count), cov>>

\* The loop over region_dict: the two reserved keys are skipped, a region
\* whose flag is set gets a line.
RECURSIVE ReportLoop(_, _)
ReportLoop(order, dict) ==
    IF order = <<>> THEN <<>>
    ELSE LET region == Head(order) IN
         (IF region # LowCountKey /\ region # OkCountKey
          THEN IF dict[region].low_coverage = TRUE
               THEN <<RegionLine(dict[region])>>
               ELSE <<>>
          ELSE <<>>)
         \o ReportLoop(Tail(order), dict)

report_low_covered_regions ==
    /\ pc = "report"
    /\ pc' = "done"
    /\ output_exists' = TRUE
    /\ output_file' = <<HeaderLine(coverage)>>
                        \o ReportLoop(region_order, region_dict)
                        \o <<SummaryLine(region_dict, coverage)>>
    /\ UNCHANGED <<coverage, line, nread, region_dict, region_order, position_list,
                   mpileup_list, depth_file_bases, low_coverage_count,
                   ok_coverage_count, evaluated, looked_up>>

\* open(args.output_file, 'w') raises: the destination cannot be written.
report_open_fails ==
    /\ pc = "report"
    /\ pc' = "error"
    /\ UNCHANGED <<coverage, line, nread, region_dict, region_order, position_list,
                   mpileup_list, depth_file_bases, low_coverage_count,
                   ok_coverage_count, evaluated, looked_up, output_exists, output_file>>

Next ==
    \/ read_bedfile_line
    \/ read_bedfile_return
    \/ parse_mpileup_line
    \/ parse_mpileup_return
    \/ region_coverage_region
    \/ region_coverage_return
    \/ report_low_covered_regions
    \/ report_open_fails

Spec == Init /\ [][Next]_vars

(***************************************************************************)
(* Vocabulary of the properties.                                           *)
(***************************************************************************)
\* The entries of region_dict that are regions, and those with a verdict.
IsRegion(k) == k \in DOMAIN region_dict /\ "chr" \in DOMAIN region_dict[k]

Verdicts == {k \in DOMAIN region_dict : IsRegion(k) /\ "low_coverage" \in DOMAIN region_dict[k]}

Failing == {k \in Verdicts : region_dict[k].low_coverage = TRUE}

Passing == {k \in Verdicts : region_dict[k].low_coverage = FALSE}

CutoffIsNumber == ParseInt(coverage).ok

Cutoff == ParseInt(coverage).val

\* The retained records of chromosome chr at position p.
RecordsAt(chr, p) ==
    {i \in 1..Len(mpileup_list) : mpileup_list[i][1] = chr /\ mpileup_list[i][2] = p}

\* A line of the mpileup file has just been read and did not end the run.
PileLineRead == pc = "parse_mpileup" /\ line # <<>>

LineKey(l) == l[1] \o <<":">> \o l[2]

Canonical(text) == ParseInt(text).ok /\ text = Str(ParseInt(text).val)

StageOrder ==
    { <<"read_bedfile", "parse_mpileup">>, <<"parse_mpileup", "region_coverage">>,
      <<"region_coverage", "report">>, <<"report", "done">> }
    \cup {<<st, "error">> : st \in {"read_bedfile", "parse_mpileup", "region_coverage", "report"}}

(***************************************************************************)
(* C1.  After region_coverage a region is marked passing (low_coverage =   *)
(* FALSE) if and only if every position p with start+1 <= p <= stop has a  *)
(* matching depth record (same chromosome, position p) whose depth is at   *)
(* least the cutoff.  The code iterates range(start+1, stop), which leaves *)
(* out stop, so this statement is violated.                                *)
(***************************************************************************)
C1_PassingIffClosedRangeCovered ==
    CutoffIsNumber =>
        \A k \in Verdicts :
            LET r == region_dict[k] IN
            (r.low_coverage = FALSE) <=>
                \A p \in (r.start + 1)..r.stop :
                    \E i \in RecordsAt(r.chr, p) : mpileup_list[i][3] >= Cutoff

(***************************************************************************)
(* C2.  For every cutoff >= 0, a region for whose chromosome and positions *)
(* the depth file holds no line at all is marked failing after evaluation, *)
(* whatever its length.  A region of length 1 has no base in               *)
(* range(start+1, stop) and is marked passing, so this is violated.        *)
(***************************************************************************)
C2_AbsentRegionFails ==
    (CutoffIsNumber /\ Cutoff >= 0) =>
        \A k \in Verdicts :
            LET r == region_dict[k] IN
            (\A p \in r.start..r.stop : <<r.chr, p>> \notin depth_file_bases)
                => r.low_coverage = TRUE

(***************************************************************************)
(* C3.  The positions the evaluator looks up for a region are exactly the  *)
(* closed range start+1 .. stop.  The code looks up start+1 .. stop-1, so  *)
(* this is violated (a region of length 1 looks up nothing).               *)
(***************************************************************************)
C3_LooksUpClosedRange ==
    \A k \in DOMAIN looked_up :
        IsRegion(k) =>
            looked_up[k] = (region_dict[k].start + 1)..region_dict[k].stop

(***************************************************************************)
(* C4.  Throughout region_coverage the two counts sum to the number of     *)
(* regions evaluated so far, low_coverage_count counting the regions       *)
(* flagged and ok_coverage_count the others; every region evaluated        *)
(* increments exactly one of the counts by one; when the loop ends the sum *)
(* is the number of entries of region_dict, so the assert never fails.     *)
(***************************************************************************)
C4_CountsSumToRegions ==
    /\ [](/\ low_coverage_count + ok_coverage_count = evaluated
          /\ pc = "region_coverage" =>
                /\ low_coverage_count = Cardinality(Failing)
                /\ ok_coverage_count = Cardinality(Passing)
                /\ evaluated = Len(region_order) =>
                      low_coverage_count + ok_coverage_count
                          = Cardinality(DOMAIN region_dict)
          /\ pc \in {"report", "done"} =>
                region_dict[LowCountKey].count + region_dict[OkCountKey].count
                    = evaluated)
    /\ [][/\ evaluated' # evaluated =>
                /\ evaluated' = evaluated + 1
                /\ \/ /\ low_coverage_count' = low_coverage_count + 1
                      /\ ok_coverage_count' = ok_coverage_count
                   \/ /\ low_coverage_count' = low_coverage_count
                      /\ ok_coverage_count' = ok_coverage_count + 1
          /\ evaluated' = evaluated =>
                /\ low_coverage_count' = low_coverage_count
                /\ ok_coverage_count' = ok_coverage_count
          /\ (pc = "region_coverage" /\ evaluated = Len(region_order)) =>
                pc' # "error"]_vars

C4_Witness ==
    /\ pc = "report"
    /\ low_coverage_count = 1
    /\ ok_coverage_count = 1

(***************************************************************************)
(* C5.  The cutoff is inclusive.  For a region all of whose looked-up      *)
(* positions have a retained record: if every such record has depth >= the *)
(* cutoff (depth = cutoff included) the region passes; and a record at a   *)
(* looked-up position with depth = cutoff - 1 makes the region fail.       *)
(***************************************************************************)
C5_CutoffInclusive ==
    CutoffIsNumber =>
        \A k \in Verdicts \cap DOMAIN looked_up :
            LET r == region_dict[k]
                checked == looked_up[k]
            IN  /\ ( /\ \A p \in checked : RecordsAt(r.chr, p) # {}
                     /\ \A p \in checked : \A i \in RecordsAt(r.chr, p) :
                            mpileup_list[i][3] >= Cutoff )
                       => r.low_coverage = FALSE
                /\ ( \E p \in checked : \E i \in RecordsAt(r.chr, p) :
                            mpileup_list[i][3] = Cutoff - 1 )
                       => r.low_coverage = TRUE

\* A region passes with a record whose depth is exactly a positive cutoff.
C5_Witness ==
    /\ CutoffIsNumber
    /\ Cutoff >= 1
    /\ \E k \in Verdicts \cap DOMAIN looked_up :
          /\ region_dict[k].low_coverage = FALSE
          /\ \E p \in looked_up[k] : \E i \in RecordsAt(region_dict[k].chr, p) :
                mpileup_list[i][3] = Cutoff

(***************************************************************************)
(* C6.  The stages run in the order read_bedfile, parse_mpileup,           *)
(* region_coverage, report; the output file is opened and written only by  *)
(* the report stage; a BED line that does not split into 8 fields or whose *)
(* start or stop is not a number, and an mpileup line that does not split  *)
(* into 6 fields, abort the run; and a run that aborted has produced no    *)
(* output file, not even a partial one.                                    *)
(***************************************************************************)
C6_NoOutputAfterAbort ==
    /\ []((output_exists \/ output_file # <<>>) => pc = "done")
    /\ [][/\ pc' # pc => <<pc, pc'>> \in StageOrder
          /\ (output_exists' # output_exists \/ output_file' # output_file)
                => (pc = "report" /\ pc' = "done")
          /\ (pc = "read_bedfile" /\ nread' = nread + 1) =>
                ((Len(line') # 8 \/ ~ParseInt(line'[2]).ok \/ ~ParseInt(line'[3]).ok)
                    => pc' = "error")
          /\ (pc = "parse_mpileup" /\ nread' = nread + 1) =>
                (Len(line') # 6 => pc' = "error")]_vars

\* The run aborted on a BED line of 7 fields and there is no output file.
C6_Witness ==
    /\ pc = "error"
    /\ Len(line) = 7
    /\ ~output_exists

(***************************************************************************)
(* C7.  The depth loader fails on every malformed line of the depth file   *)
(* (a field count other than 6, a position or a depth that is not an       *)
(* integer), whether or not the line is one of position_list.  The code    *)
(* converts position and depth only for the lines of position_list, so a   *)
(* malformed line outside it is skipped and this is violated.              *)
(***************************************************************************)
C7_MalformedDepthLineIsFatal ==
    PileLineRead =>
        /\ Len(line) = 6
        /\ ParseInt(line[2]).ok
        /\ ParseInt(line[4]).ok

(***************************************************************************)
(* C8.  The report is a header line, then exactly one line for each region *)
(* whose flag is TRUE and none for the others, then a summary line whose   *)
(* count is the number of regions whose flag is FALSE; region lines plus   *)
(* summary count equal the number of regions.  A region whose key is one   *)
(* of the two reserved names is overwritten by the count and loses its     *)
(* line, so this is violated.                                              *)
(***************************************************************************)
C8_ReportListsFailingRegions ==
    pc = "done" =>
        LET n == Len(output_file) IN
        /\ n >= 2
        /\ output_file[1] = HeaderLine(coverage)
        /\ output_file[n] = <<"summary", Str(Cardinality(Passing)), coverage>>
        /\ n - 2 = Cardinality(Failing)
        /\ \A k \in Failing : \E j \in 2..(n - 1) :
              output_file[j] = RegionLine(region_dict[k])
        /\ \A j \in 2..(n - 1) : \E k \in Failing :
              output_file[j] = RegionLine(region_dict[k])
        /\ (n - 2) + ParseInt(output_file[n][2]).val = evaluated

LookedUpBasesListed ==
    \A k \in DOMAIN region_dict :
        (pc = "parse_mpileup" /\ IsRegion(k)) =>
            \A base \in RegionBases(region_dict[k]) :
                (region_dict[k].chr \o <<":">> \o Str(base)) \in SeqToSet(position_list)

Needed(l) ==
    \E k \in DOMAIN region_dict :
        /\ IsRegion(k)
        /\ region_dict[k].chr = l[1]
        /\ ParseInt(l[2]).val \in RegionBases(region_dict[k])

Dropped(l) ==
    /\ Len(l) = 6
    /\ ParseInt(l[2]).ok
    /\ ParseInt(l[4]).ok
    /\ LineKey(l) \notin SeqToSet(position_list)

C10_FilterDropsNothingNeeded ==
    /\ LookedUpBasesListed
    /\ (PileLineRead /\ Dropped(line)) => ~Needed(line)

(***************************************************************************)
(* The extent of the defect: the filter drops nothing needed among the     *)
(* lines whose position is written as the canonical decimal text of its    *)
(* number, the way str() writes it.                                        *)
(***************************************************************************)
FilterSoundForCanonicalPositions ==
    /\ LookedUpBasesListed
    /\ (PileLineRead /\ Dropped(line) /\ Canonical(line[2])) => ~Needed(line)

=============================================================================
